---------------------------- MODULE Spec2Model ----------------------------
(***************************************************************************)
(* A model of SugarPP's Lazy<Initializer, T>                               *)
(* (include/sugarpp/lazy/lazy.hpp): a lazily computed, cached value with   *)
(* three thread-safety modes.  NThreads client threads share one instance; *)
(* they make up to MaxCalls calls of value() between them and any number   *)
(* of calls of isInitialized().  Every access of the shared fields         *)
(* m_value, m_hasValue and m_lock is a step of its own, so that every      *)
(* interleaving of the statements of value() is a behaviour of the model.  *)
(*                                                                         *)
(* Three more components of the library are modelled next to it, each      *)
(* under a specification of its own that leaves the others untouched:      *)
(* parallel() over a Range (Range/Range.hpp, RangeSpec), the ThreadSafe    *)
(* output functions (IO/IO.hpp, IOSpec) and when()                         *)
(* (include/sugarpp/when/when.hpp, WhenSpec).                              *)
(***************************************************************************)
EXTENDS Integers, Sequences, FiniteSets, TLC

\* ---- bounds of the model
NThreads == 2
MaxCalls == 3
MaxFail == 2
\* parallel(): the largest end of the Range, its largest step, the largest threadCount
MaxEnd == 4
MaxStep == 2
MaxThreadCount == 2
\* ThreadSafe: how many calls the threads make between them, and with how many arguments
MaxPrints == 3
MaxArgs == 1
\* when(): the largest number of branches, and the largest value of the expression
MaxCases == 3
MaxExpr == 2
\* How many iterations of a loop over a MultiRange the model follows.
MaxTuples == 16
\* input<T>(): how many lines std::cin holds, and the largest number entered
MaxLines == 2
MaxNum == 1

\* ---- encodings
\* m_lock when no thread holds the mutex; also "no thread is writing m_value".
NoThread == 0
\* An std::optional<T> that holds no value.
Empty == 0
\* Outcome of a value() call out of which the initializer's exception propagated.
Failed == -1
\* Outcome of a value() call whose m_value.value() found the optional disengaged
\* (std::bad_optional_access).
BadAccess == -2
\* What a read of m_value that races with an emplace may see besides the
\* value being stored: a partially constructed T.
Torn == -3

\* w_result before when() has been called.
Pending == -2
\* steps() has not been called: no current value of the model's Ranges.
NotAsked == -1

Threads == 1..NThreads
Modes == {"Synchronized", "Publication", "None"}

VARIABLES
    m_mode,        \* ThreadSafetyMode m_mode
    m_value,       \* std::optional<T> m_value: Empty or the T it holds
    m_writer,      \* the thread in the middle of m_value.emplace(...), or NoThread
    m_hasValue,    \* std::atomic_bool m_hasValue
    m_lock,        \* std::mutex m_lock: the thread that holds it, or NoThread
    failSet,       \* the behaviour of m_initializer: the invocations (by number) that throw
    invocations,   \* how many times m_initializer has been invoked
    pc,            \* pc[t]: the statement of value() thread t is at, or "idle"
    myInv,         \* myInv[t]: the number of the invocation of m_initializer t's call made
    result,        \* result[t]: what t's invocation of m_initializer returned
    entryRead,     \* entryRead[t]: what t's call read from m_hasValue on entry (lines 47, 61)
    calls,         \* calls[t]: how many calls of value() t has started
    ret,           \* ret[t]: the outcome of t's latest finished call of value()
    isInitRet,     \* what the latest call of isInitialized() (by any thread) returned
    prior,         \* prior[t]: what the clients had seen when t's current call started
    blocked        \* blocked[t]: t was waiting for m_lock when an initializer threw

\* parallel(range, func, threadCount)
VARIABLES
    r_version,     \* which overload: func returns "void" or a "value"
    r_max,         \* range.max
    r_step,        \* range.step
    r_threadCount, \* the argument threadCount
    r_current,     \* range.current, shared by the launched threads (captured by reference)
    r_pc,          \* r_pc[i]: the statement of its lambda thread i is at
    r_tmp,         \* r_tmp[i]: what thread i read of range.current inside += or ++
    r_lo,          \* r_lo[i]: the start of the Range thread i hands to func
    r_hi           \* r_hi[i]: the end of the Range thread i hands to func

\* ThreadSafe<os>
VARIABLES
    io_m,          \* static std::mutex m: the thread that holds it, or NoThread
    io_pc,         \* io_pc[t]: the statement of its ThreadSafe function thread t is at, or "idle"
    io_call,       \* io_call[t]: the function t called last and its number of arguments
    io_n,          \* io_n[t]: how many insertions into os t's call has made
    io_os,         \* the stream os: the insertions made, in order
    io_prints      \* how many calls of ThreadSafe functions have been made

\* when(...)
VARIABLES
    w_form,        \* "expr": when(expr, c1, r1, ...); "bare": when(c1, r1, ...)
    w_expr,        \* the value of expr
    w_cases,       \* the cases c1 .. cn
    w_result       \* what the call returned: the i of r_i, or Default, or Pending before it

\* A range-based for over one Range (Range/Range.hpp), and a steps() call on it.
VARIABLES
    it_start,      \* the start the Range was constructed with
    it_max,        \* Range::max, the end of the Range
    it_step,       \* Range::step
    it_current,    \* Range::current of the loop's iterator
    it_pc,         \* where the loop is: "test", "body", "done"; "none" before it
    it_out,        \* the values the loop body was given, in order
    it_steps,      \* what steps() returned
    it_at          \* the current value steps() was called at, NotAsked before the call

\* A range-based for over Range | Range (MultiRange in Range/Range.hpp).
VARIABLES
    mr_start,      \* MultiRange::startValues
    mr_max,        \* the max of each Range of MultiRange::ranges
    mr_step,       \* the step of each Range of MultiRange::ranges
    mr_current,    \* the current of each Range of MultiRange::ranges
    mr_pc,         \* where the loop is: "test", "body", "done"; "none" before it
    mr_out         \* the tuples the loop body was given, in order

\* One call of input<T>() (IO/IO.hpp) on std::cin.
VARIABLES
    in_T,          \* "signed" (int) or "unsigned" (unsigned)
    in_retry,      \* the retry argument
    in_cin,        \* the lines std::cin still holds, one entry each
    in_fail,       \* std::cin's failbit
    in_pc,         \* "call", "again", "done", "hang"; "none" before the call
    in_ret,        \* what input<T>() returned
    in_prompts,    \* how many times the prompt was printed
    in_failed,     \* how many extractions failed
    in_entry,      \* the entry the successful extraction read, NoEntry if none
    in_lines       \* how many lines std::cin held at the call

lazyVars == <<m_mode, m_value, m_writer, m_hasValue, m_lock, failSet, invocations,
              pc, myInv, result, entryRead, calls, ret, isInitRet, prior, blocked>>
rangeVars == <<r_version, r_max, r_step, r_threadCount, r_current, r_pc, r_tmp, r_lo, r_hi>>
ioVars == <<io_m, io_pc, io_call, io_n, io_os, io_prints>>
whenVars == <<w_form, w_expr, w_cases, w_result>>
iterVars == <<it_start, it_max, it_step, it_current, it_pc, it_out, it_steps, it_at>>
multiVars == <<mr_start, mr_max, mr_step, mr_current, mr_pc, mr_out>>
inputVars == <<in_T, in_retry, in_cin, in_fail, in_pc, in_ret, in_prompts, in_failed, in_entry,
               in_lines>>

vars == <<lazyVars, rangeVars, ioVars, whenVars, iterVars, multiVars, inputVars>>

\* What a Lazy never touches: the other components.
elsewhere == <<rangeVars, ioVars, whenVars, iterVars, multiVars, inputVars>>

\* The instance's configuration, fixed at construction.
config == <<m_mode, failSet>>
\* The fields the threads share.
shared == <<m_value, m_writer, m_hasValue, m_lock>>
\* What a call of value() keeps on its stack.
locals == <<myInv, result, entryRead>>
\* What the clients keep of their calls.
client == <<calls, ret, isInitRet, prior, blocked>>

\* The T the k-th invocation of m_initializer returns: a different one each time.
InitValue(k) == k

\* What the threads' latest calls of value() returned, where they returned a
\* reference to a constructed T.
Returned == {ret[t] : t \in Threads} \ {Empty, Failed, BadAccess, Torn}

\* Nothing seen: what prior[t] is outside a call.
NoPrior == [vals |-> {}, inited |-> FALSE]


\* ---- the other components before they are used

\* The t of Range(0ull, v.size()): where the Range starts.
RangeStart == 0
\* The threads parallel() can launch: threadNum of them, and one more in the
\* overload that returns the results.
Workers == 1..(MaxThreadCount + 1)

\* No call of parallel() has been made.
RangeIdle ==
    /\ r_version = "none"
    /\ r_max = 0
    /\ r_step = 1
    /\ r_threadCount = 1
    /\ r_current = RangeStart
    /\ r_pc = [i \in Workers |-> "none"]
    /\ r_tmp = [i \in Workers |-> 0]
    /\ r_lo = [i \in Workers |-> 0]
    /\ r_hi = [i \in Workers |-> 0]

\* t has called no ThreadSafe function yet.
NoCall == [fn |-> "none", nargs |-> 0]

\* The mutex is free, nothing has been written to os and no thread is in a
\* ThreadSafe function.
IOIdle ==
    /\ io_m = NoThread
    /\ io_pc = [t \in Threads |-> "idle"]
    /\ io_call = [t \in Threads |-> NoCall]
    /\ io_n = [t \in Threads |-> 0]
    /\ io_os = <<>>
    /\ io_prints = 0

\* No call of when() has been made.
WhenIdle ==
    /\ w_form = "none"
    /\ w_expr = 0
    /\ w_cases = <<>>
    /\ w_result = Pending

\* Lazy(Initializer&& initializer, ThreadSafetyMode threadSafetyMode): a fresh
\* instance of any mode, with any initializer, and clients that have called nothing.
\* The Ranges a MultiRange of the model holds: Range(-5, 1) | Range(0, 3) has two.
Dims == 2

\* What input<T>() returns: n itself, n modulo 2^32 (a negative n read into an
\* unsigned), or std::numeric_limits<T>::max() (n is not looked at).
Val(n) == [as |-> "value", n |-> n]
Wrapped(n) == [as |-> "wrapped", n |-> n]
Limit == [as |-> "max", n |-> 0]
\* T{}.
DefaultT == Val(0)
\* No entry was read.
NoEntry == [as |-> "none", n |-> 0]

\* No range-based for over a Range has been started.
IterIdle ==
    /\ it_start = 0
    /\ it_max = 0
    /\ it_step = 1
    /\ it_current = 0
    /\ it_pc = "none"
    /\ it_out = <<>>
    /\ it_steps = 0
    /\ it_at = NotAsked

\* No range-based for over a MultiRange has been started.
MultiIdle ==
    /\ mr_start = [i \in 1..Dims |-> 0]
    /\ mr_max = [i \in 1..Dims |-> 0]
    /\ mr_step = [i \in 1..Dims |-> 1]
    /\ mr_current = [i \in 1..Dims |-> 0]
    /\ mr_pc = "none"
    /\ mr_out = <<>>

\* No call of input<T>() has been made.
InputIdle ==
    /\ in_T = "signed"
    /\ in_retry = FALSE
    /\ in_cin = <<>>
    /\ in_fail = FALSE
    /\ in_pc = "none"
    /\ in_ret = NoEntry
    /\ in_prompts = 0
    /\ in_failed = 0
    /\ in_entry = NoEntry
    /\ in_lines = 0

\* The components of Range.hpp's iteration and of input<T>() are not in use.
RestIdle == IterIdle /\ MultiIdle /\ InputIdle

LazyInit ==
    /\ m_mode \in Modes
    /\ m_value = Empty
    /\ m_writer = NoThread
    /\ m_hasValue = FALSE
    /\ m_lock = NoThread
    /\ failSet \in SUBSET (1..MaxFail)
    /\ invocations = 0
    /\ pc = [t \in Threads |-> "idle"]
    /\ myInv = [t \in Threads |-> 0]
    /\ result = [t \in Threads |-> Empty]
    /\ entryRead = [t \in Threads |-> "none"]
    /\ calls = [t \in Threads |-> 0]
    /\ ret = [t \in Threads |-> Empty]
    /\ isInitRet = "none"
    /\ prior = [t \in Threads |-> NoPrior]
    /\ blocked = [t \in Threads |-> FALSE]

\* A fresh Lazy, and nothing else in use.
Init == LazyInit /\ RangeIdle /\ IOIdle /\ WhenIdle /\ RestIdle

\* A Lazy nobody uses: the constructor's default mode, an initializer that
\* never throws, no call made.
LazyIdle == LazyInit /\ m_mode = "Synchronized" /\ failSet = {}

\* ---- the pieces value() is made of

\* The statement a call of value() starts at: the case of switch (m_mode).
Entry ==
    CASE m_mode = "Publication" -> "p_check"
      [] m_mode = "Synchronized" -> "s_check"
      [] OTHER -> "n_init"

Goto(t, l) == pc' = [pc EXCEPT ![t] = l]

\* The call of value() by t ends with outcome o; its locals go out of scope.
Finish(t, o) ==
    /\ pc' = [pc EXCEPT ![t] = "idle"]
    /\ ret' = [ret EXCEPT ![t] = o]
    /\ myInv' = [myInv EXCEPT ![t] = 0]
    /\ result' = [result EXCEPT ![t] = Empty]
    /\ entryRead' = [entryRead EXCEPT ![t] = "none"]
    /\ prior' = [prior EXCEPT ![t] = NoPrior]

\* m_initializer() is entered: its invocation gets the next number.
BeginInit(t, next) ==
    /\ invocations' = invocations + 1
    /\ myInv' = [myInv EXCEPT ![t] = invocations + 1]
    /\ Goto(t, next)

\* m_initializer() returns its T.
EndInit(t, next) ==
    /\ myInv[t] \notin failSet
    /\ result' = [result EXCEPT ![t] = InitValue(myInv[t])]
    /\ Goto(t, next)

\* std::optional::emplace, first half: the old content is destroyed and the
\* construction of the new one begins.
BeginEmplace(t, next) ==
    /\ m_value' = Empty
    /\ m_writer' = t
    /\ Goto(t, next)

\* std::optional::emplace, second half: the new content is in place.  When
\* another thread's emplace of the same optional overlaps this one (a data
\* race, which only ThreadSafetyMode::None allows), because it is still going
\* on or because it has ended since this one began and left its T, the content
\* is either thread's T or a mix of the two; while another emplace is going on
\* the optional is still being written.
EndEmplace(t, next) ==
    LET \* the other threads that are inside an emplace of m_value
        racing == {u \in Threads \ {t} :
                      pc[u] \in {"s_emplace2", "p_emplace2", "n_emplace2"}}
        \* what an emplace that ended inside this one has left
        left == {m_value} \ {Empty}
    IN  /\ m_value' \in {result[t]} \cup {result[u] : u \in racing} \cup left
                          \cup (IF racing = {} /\ left = {} THEN {} ELSE {Torn})
        /\ m_writer' \in (IF racing = {} THEN {NoThread} ELSE racing)
        /\ Goto(t, next)

\* What "return m_value.value()" hands the caller, who reads the T through the
\* returned reference: the content of m_value; std::bad_optional_access when
\* there is none; and, when another thread is in the middle of an emplace (a
\* data race), any of what the race can produce.
ReadOutcomes(t) ==
    IF m_writer # NoThread /\ m_writer # t
    THEN {Torn, result[m_writer]} \cup (IF m_value = Empty THEN {BadAccess} ELSE {m_value})
    ELSE IF m_value = Empty THEN {BadAccess} ELSE {m_value}

\* How many calls of value() the threads 1..n have started.
RECURSIVE CallsOf(_)
CallsOf(n) == IF n = 0 THEN 0 ELSE calls[n] + CallsOf(n - 1)

\* ---- the client: a thread starts a call of value()
Call(t) ==
    /\ pc[t] = "idle"
    /\ CallsOf(NThreads) < MaxCalls
    /\ calls' = [calls EXCEPT ![t] = @ + 1]
    /\ prior' = [prior EXCEPT ![t] = [vals |-> Returned, inited |-> isInitRet = "true"]]
    /\ Goto(t, Entry)
    /\ UNCHANGED <<elsewhere, config, shared, invocations, locals, ret, isInitRet, blocked>>

\* ---- bool isInitialized() const { return m_hasValue; }
isInitialized(t) ==
    /\ pc[t] = "idle"
    /\ isInitRet' = IF m_hasValue THEN "true" ELSE "false"
    /\ UNCHANGED <<elsewhere, config, shared, invocations, pc, locals, calls, ret, prior, blocked>>

\* ---- return m_value.value();   on the fast path (lines 48, 62) and after
\* the slow one (lines 57, 67, 71, 76)
Return(t) ==
    /\ pc[t] \in {"fast", "ret"}
    /\ \E o \in ReadOutcomes(t) : Finish(t, o)
    /\ blocked' = [blocked EXCEPT ![t] = FALSE]
    /\ UNCHANGED <<elsewhere, config, shared, invocations, calls, isInitRet>>

\* ---- case ThreadSafetyMode::Synchronized

\* SyncCheck as it would be with plain locking: m_hasValue is read, but the
\* call goes on to the guard whatever it read.
SyncCheck_AlwaysLocks(t) ==
    /\ pc[t] = "s_check"
    /\ entryRead' = [entryRead EXCEPT ![t] = IF m_hasValue THEN "true" ELSE "false"]
    /\ Goto(t, "s_lock")
    /\ UNCHANGED <<elsewhere, config, shared, invocations, myInv, result, client>>

\* if (m_hasValue) return m_value.value();
SyncCheck(t) ==
    /\ pc[t] = "s_check"
    /\ entryRead' = [entryRead EXCEPT ![t] = IF m_hasValue THEN "true" ELSE "false"]
    /\ Goto(t, IF m_hasValue THEN "fast" ELSE "s_lock")
    /\ UNCHANGED <<elsewhere, config, shared, invocations, myInv, result, client>>

\* SyncLock as it would be without the mutex: the call goes on at once.
SyncLock_NoMutex(t) ==
    /\ pc[t] = "s_lock"
    /\ Goto(t, "s_test")
    /\ UNCHANGED <<elsewhere, config, shared, invocations, locals, client>>

\* std::lock_guard guard{ m_lock };
SyncLock(t) ==
    /\ pc[t] = "s_lock"
    /\ m_lock = NoThread
    /\ m_lock' = t
    /\ Goto(t, "s_test")
    /\ UNCHANGED <<elsewhere, config, m_value, m_writer, m_hasValue, invocations, locals, client>>

\* if (m_hasValue) return m_value.value();   under the lock: the return
\* destroys the guard
SyncTest(t) ==
    /\ pc[t] = "s_test"
    /\ IF m_hasValue
       THEN /\ m_lock' = NoThread
            /\ Goto(t, "ret")
       ELSE /\ m_lock' = m_lock
            /\ Goto(t, "s_init")
    /\ UNCHANGED <<elsewhere, config, m_value, m_writer, m_hasValue, invocations, locals, client>>

\* m_value.emplace(m_initializer()): the initializer is entered
SyncInit(t) ==
    /\ pc[t] = "s_init"
    /\ BeginInit(t, "s_run")
    /\ UNCHANGED <<elsewhere, config, shared, result, entryRead, client>>

\* SyncThrow as it would be with m_hasValue stored on every path out of the
\* guard's scope, the exceptional one included.
SyncThrow_SetsFlag(t) ==
    /\ pc[t] = "s_run"
    /\ myInv[t] \in failSet
    /\ m_lock' = NoThread
    /\ m_hasValue' = TRUE
    /\ Finish(t, Failed)
    /\ blocked' = [u \in Threads |-> u # t /\ (blocked[u] \/ pc[u] = "s_lock")]
    /\ UNCHANGED <<elsewhere, config, m_value, m_writer, invocations, calls, isInitRet>>

\* SyncThrow as it would be with a handler that rolls the instance back to
\* "uninitialized" when the initializer throws.
SyncThrow_ResetsFlag(t) ==
    /\ pc[t] = "s_run"
    /\ myInv[t] \in failSet
    /\ m_lock' = NoThread
    /\ m_hasValue' = FALSE
    /\ Finish(t, Failed)
    /\ blocked' = [u \in Threads |-> u # t /\ (blocked[u] \/ pc[u] = "s_lock")]
    /\ UNCHANGED <<elsewhere, config, m_value, m_writer, invocations, calls, isInitRet>>

\* SyncThrow as it would be with m_lock.lock() and m_lock.unlock() in place of
\* the guard: the exception skips the unlock.
SyncThrow_KeepsLock(t) ==
    /\ pc[t] = "s_run"
    /\ myInv[t] \in failSet
    /\ Finish(t, Failed)
    /\ blocked' = [u \in Threads |-> u # t /\ (blocked[u] \/ pc[u] = "s_lock")]
    /\ UNCHANGED <<elsewhere, config, shared, invocations, calls, isInitRet>>

\* ... and throws: the guard's destructor unlocks, the exception leaves
\* value(); the threads waiting in the guard's constructor were blocked
\* while it threw
SyncThrow(t) ==
    /\ pc[t] = "s_run"
    /\ myInv[t] \in failSet
    /\ m_lock' = NoThread
    /\ Finish(t, Failed)
    /\ blocked' = [u \in Threads |-> u # t /\ (blocked[u] \/ pc[u] = "s_lock")]
    /\ UNCHANGED <<elsewhere, config, m_value, m_writer, m_hasValue, invocations, calls, isInitRet>>

\* ... or returns the T to emplace
SyncRun(t) ==
    /\ pc[t] = "s_run"
    /\ EndInit(t, "s_emplace")
    /\ UNCHANGED <<elsewhere, config, shared, invocations, myInv, entryRead, client>>

SyncEmplace(t) ==
    /\ \/ pc[t] = "s_emplace" /\ BeginEmplace(t, "s_emplace2")
       \/ pc[t] = "s_emplace2" /\ EndEmplace(t, "s_unlock")
    /\ UNCHANGED <<elsewhere, config, m_hasValue, m_lock, invocations, locals, client>>

\* SyncUnlock as it would be with a guard that is never destroyed: m_lock
\* stays locked.
SyncUnlock_KeepsLock(t) ==
    /\ pc[t] = "s_unlock"
    /\ Goto(t, "s_store")
    /\ UNCHANGED <<elsewhere, config, shared, invocations, locals, client>>

\* } the guard's scope ends
SyncUnlock(t) ==
    /\ pc[t] = "s_unlock"
    /\ m_lock' = NoThread
    /\ Goto(t, "s_store")
    /\ UNCHANGED <<elsewhere, config, m_value, m_writer, m_hasValue, invocations, locals, client>>

\* m_hasValue.store(true, std::memory_order_release);
SyncStore(t) ==
    /\ pc[t] = "s_store"
    /\ m_hasValue' = TRUE
    /\ Goto(t, "ret")
    /\ UNCHANGED <<elsewhere, config, m_value, m_writer, m_lock, invocations, locals, client>>

\* ---- case ThreadSafetyMode::Publication

\* PubCheck as it would be without the test of m_hasValue: every call computes.
PubCheck_NoFastPath(t) ==
    /\ pc[t] = "p_check"
    /\ entryRead' = [entryRead EXCEPT ![t] = IF m_hasValue THEN "true" ELSE "false"]
    /\ Goto(t, "p_init")
    /\ UNCHANGED <<elsewhere, config, shared, invocations, myInv, result, client>>

\* if (m_hasValue.load(std::memory_order_acquire)) return m_value.value();
PubCheck(t) ==
    /\ pc[t] = "p_check"
    /\ entryRead' = [entryRead EXCEPT ![t] = IF m_hasValue THEN "true" ELSE "false"]
    /\ Goto(t, IF m_hasValue THEN "fast" ELSE "p_init")
    /\ UNCHANGED <<elsewhere, config, shared, invocations, myInv, result, client>>

\* PubInit as it would be with the lock_guard of line 52 moved before line
\* 50: the initializer runs under m_lock.
PubInit_UnderLock(t) ==
    /\ pc[t] = "p_init"
    /\ m_lock = NoThread
    /\ m_lock' = t
    /\ BeginInit(t, "p_run")
    /\ UNCHANGED <<elsewhere, config, m_value, m_writer, m_hasValue, result, entryRead, client>>

\* auto result = m_initializer(): the initializer is entered
PubInit(t) ==
    /\ pc[t] = "p_init"
    /\ BeginInit(t, "p_run")
    /\ UNCHANGED <<elsewhere, config, shared, result, entryRead, client>>

\* ... and throws: the exception leaves value()
PubThrow(t) ==
    /\ pc[t] = "p_run"
    /\ myInv[t] \in failSet
    /\ Finish(t, Failed)
    /\ UNCHANGED <<elsewhere, config, shared, invocations, calls, isInitRet, blocked>>

\* ... or returns result
PubRun(t) ==
    /\ pc[t] = "p_run"
    /\ EndInit(t, "p_lock")
    /\ UNCHANGED <<elsewhere, config, shared, invocations, myInv, entryRead, client>>

\* std::lock_guard guard{ m_lock };
PubLock(t) ==
    /\ pc[t] = "p_lock"
    /\ m_lock = NoThread
    /\ m_lock' = t
    /\ Goto(t, "p_test")
    /\ UNCHANGED <<elsewhere, config, m_value, m_writer, m_hasValue, invocations, locals, client>>

\* if (!m_hasValue)
PubTest(t) ==
    /\ pc[t] = "p_test"
    /\ Goto(t, IF ~m_hasValue THEN "p_emplace" ELSE "p_unlock")
    /\ UNCHANGED <<elsewhere, config, shared, invocations, locals, client>>

\* m_value.emplace(std::move(result));
PubEmplace(t) ==
    /\ \/ pc[t] = "p_emplace" /\ BeginEmplace(t, "p_emplace2")
       \/ pc[t] = "p_emplace2" /\ EndEmplace(t, "p_unlock")
    /\ UNCHANGED <<elsewhere, config, m_hasValue, m_lock, invocations, locals, client>>

\* } the guard's scope ends
PubUnlock(t) ==
    /\ pc[t] = "p_unlock"
    /\ m_lock' = NoThread
    /\ Goto(t, "p_store")
    /\ UNCHANGED <<elsewhere, config, m_value, m_writer, m_hasValue, invocations, locals, client>>

\* m_hasValue.store(true, std::memory_order_release);
PubStore(t) ==
    /\ pc[t] = "p_store"
    /\ m_hasValue' = TRUE
    /\ Goto(t, "ret")
    /\ UNCHANGED <<elsewhere, config, m_value, m_writer, m_lock, invocations, locals, client>>

\* ---- default: (ThreadSafetyMode::None)

\* m_value.emplace(m_initializer()): the initializer is entered
NoneInit(t) ==
    /\ pc[t] = "n_init"
    /\ BeginInit(t, "n_run")
    /\ UNCHANGED <<elsewhere, config, shared, result, entryRead, client>>

\* ... and throws: the exception leaves value()
NoneThrow(t) ==
    /\ pc[t] = "n_run"
    /\ myInv[t] \in failSet
    /\ Finish(t, Failed)
    /\ UNCHANGED <<elsewhere, config, shared, invocations, calls, isInitRet, blocked>>

\* ... or returns the T to emplace
NoneRun(t) ==
    /\ pc[t] = "n_run"
    /\ EndInit(t, "n_emplace")
    /\ UNCHANGED <<elsewhere, config, shared, invocations, myInv, entryRead, client>>

NoneEmplace(t) ==
    /\ \/ pc[t] = "n_emplace" /\ BeginEmplace(t, "n_emplace2")
       \/ pc[t] = "n_emplace2" /\ EndEmplace(t, "n_store")
    /\ UNCHANGED <<elsewhere, config, m_hasValue, m_lock, invocations, locals, client>>

\* NoneStore as it would be without line 75: the value is cached, the flag
\* never set.
NoneStore_Skipped(t) ==
    /\ pc[t] = "n_store"
    /\ Goto(t, "ret")
    /\ UNCHANGED <<elsewhere, config, shared, invocations, locals, client>>

\* m_hasValue.store(true, std::memory_order_relaxed);
NoneStore(t) ==
    /\ pc[t] = "n_store"
    /\ m_hasValue' = TRUE
    /\ Goto(t, "ret")
    /\ UNCHANGED <<elsewhere, config, m_value, m_writer, m_lock, invocations, locals, client>>

\* ---- T& value(): one step of the call thread t is in
SyncValue(t) ==
    \/ SyncCheck(t) \/ SyncLock(t) \/ SyncTest(t) \/ SyncInit(t) \/ SyncThrow(t)
    \/ SyncRun(t) \/ SyncEmplace(t) \/ SyncUnlock(t) \/ SyncStore(t)

PubValue(t) ==
    \/ PubCheck(t) \/ PubInit(t) \/ PubThrow(t) \/ PubRun(t) \/ PubLock(t)
    \/ PubTest(t) \/ PubEmplace(t) \/ PubUnlock(t) \/ PubStore(t)

NoneValue(t) ==
    \/ NoneInit(t) \/ NoneThrow(t) \/ NoneRun(t) \/ NoneEmplace(t) \/ NoneStore(t)

value(t) == SyncValue(t) \/ PubValue(t) \/ NoneValue(t) \/ Return(t)

Next == \E t \in Threads : Call(t) \/ isInitialized(t) \/ value(t)

Spec == Init /\ [][Next]_vars

\* Every thread in a call of value() keeps running: the scheduler starves no
\* thread that can take a step.  Starting a call is up to the client.
FairSpec == Spec /\ \A t \in Threads : WF_vars(value(t))

\* ---- an instance constructed with ThreadSafetyMode::Synchronized (the
\* default), under the same scheduler
InitSync == Init /\ m_mode = "Synchronized"

NextSync == \E t \in Threads : Call(t) \/ isInitialized(t) \/ SyncValue(t) \/ Return(t)

SyncFairSpec ==
    InitSync /\ [][NextSync]_vars /\ \A t \in Threads : WF_vars(SyncValue(t) \/ Return(t))

\* ---- an instance of a locking mode whose initializer never throws, under
\* the same scheduler
InitNoFail == Init /\ m_mode \in {"Synchronized", "Publication"} /\ failSet = {}

\* One step of a call of value() that does not leave by an exception.
NoFailValue(t) ==
    \/ SyncCheck(t) \/ SyncLock(t) \/ SyncTest(t) \/ SyncInit(t) \/ SyncRun(t)
    \/ SyncEmplace(t) \/ SyncUnlock(t) \/ SyncStore(t)
    \/ PubCheck(t) \/ PubInit(t) \/ PubRun(t) \/ PubLock(t) \/ PubTest(t)
    \/ PubEmplace(t) \/ PubUnlock(t) \/ PubStore(t)
    \/ Return(t)

\* The clients only call value(), as the threads of the test do.
NextNoFail == \E t \in Threads : Call(t) \/ NoFailValue(t)

NoFailFairSpec ==
    InitNoFail /\ [][NextNoFail]_vars /\ \A t \in Threads : WF_vars(NoFailValue(t))

\* ---- the vocabulary of the properties

Guarded == m_mode \in {"Synchronized", "Publication"}
AllIdle == \A t \in Threads : pc[t] = "idle"
\* Every thread has called value() once and no more: the threads of the test.
EachCalledOnce == \A t \in Threads : calls[t] = 1
\* At most one thread has ever called value().
SingleThreaded == Cardinality({t \in Threads : calls[t] > 0}) <= 1
\* Thread t reads m_value in this step: "return m_value.value()".
Reads(t) == pc[t] \in {"fast", "ret"} /\ pc'[t] = "idle"
\* The initializer's exception leaves t's call of value() in this step.
Throws(t) == pc[t] \in {"s_run", "p_run", "n_run"} /\ pc'[t] = "idle"
\* Some thread has seen m_hasValue true: isInitialized() returned true, or a
\* call of value() is on its fast path.
SeenInitialized == isInitRet = "true" \/ \E t \in Threads : pc[t] = "fast"

\* C1: in Synchronized mode, with an initializer that never fails, once every
\* thread has called value() once on the fresh instance and returned, the
\* initializer has been invoked exactly once.
C1_ExactlyOnce ==
    (m_mode = "Synchronized" /\ failSet = {} /\ EachCalledOnce /\ AllIdle)
        => invocations = 1

\* C2: in Synchronized mode no two callers of value() obtain different values,
\* even though every invocation of the initializer yields a different one.
C2_SameValue ==
    m_mode = "Synchronized" =>
        \A t, u \in Threads :
            (ret[t] \in Returned /\ ret[u] \in Returned) => ret[t] = ret[u]

\* C3: in Publication mode, when every thread calls value() once on the fresh
\* instance, all the calls return the one published value.
C3_PublicationConverges ==
    (m_mode = "Publication" /\ failSet = {} /\ EachCalledOnce /\ AllIdle)
        => \E v \in 1..invocations : \A t \in Threads : ret[t] = v

\* C4: in Synchronized and Publication modes, once a thread has seen m_hasValue
\* true, no step overwrites, changes or clears m_value.
C4_NeverOverwritten ==
    [][(Guarded /\ SeenInitialized) => (m_value' = m_value /\ m_writer' = m_writer)]_vars

\* C5: in Synchronized and Publication modes, whenever a thread reads m_value
\* no other thread is in the middle of writing it, and what it reads is a
\* fully constructed value.
C5_NoReadDuringWrite ==
    [][Guarded =>
        \A t \in Threads :
            Reads(t) => (m_writer = NoThread /\ ret'[t] \notin {BadAccess, Torn})]_vars

\* C6: in Synchronized and Publication modes, a call of value() that starts
\* after a call has returned a value returns that same value and never enters
\* the initializer.
C6_LaterCallsAgree ==
    [][Guarded =>
        \A t \in Threads :
            prior[t].vals # {} =>
                /\ myInv'[t] = 0
                /\ Reads(t) => \A v \in prior[t].vals : ret'[t] = v]_vars

\* C7: single-threaded, in Synchronized and Publication modes, with an
\* initializer that fails on its first N-1 invocations and succeeds on the Nth:
\* the first N-1 calls of value() fail, the Nth and every later call return the
\* Nth invocation's value, and the initializer is invoked once per call up to
\* the Nth and never again.
C7_FailureRetry ==
    (Guarded /\ SingleThreaded /\ failSet = 1..Cardinality(failSet)) =>
        LET N == Cardinality(failSet) + 1 IN
            /\ invocations <= N
            /\ \A t \in Threads :
                (calls[t] > 0 /\ pc[t] = "idle") =>
                    /\ ret[t] = IF calls[t] < N THEN Failed ELSE InitValue(N)
                    /\ invocations = IF calls[t] < N THEN calls[t] ELSE N

\* One failure, the success of the second call, and a third call that returned
\* the second invocation's value.
C7_Witness ==
    /\ Guarded /\ SingleThreaded /\ failSet = {1}
    /\ \E t \in Threads :
        calls[t] = 3 /\ pc[t] = "idle" /\ ret[t] = InitValue(2) /\ invocations = 2

\* C8: the step in which the initializer's failure leaves value() changes
\* neither m_hasValue nor m_value and leaves the mutex not held by the caller
\* (free, in Synchronized mode); with a single caller on an uninitialized
\* instance the object is as before the call: m_hasValue false, m_value empty,
\* the mutex free.
C8_FailureLeavesUntouched ==
    [][\A t \in Threads :
        Throws(t) =>
            /\ ret'[t] = Failed
            /\ m_hasValue' = m_hasValue
            /\ m_value' = m_value
            /\ m_writer' = m_writer
            /\ m_lock' # t
            /\ m_mode = "Synchronized" => m_lock' = NoThread
            /\ (SingleThreaded /\ ~m_hasValue) =>
                (~m_hasValue' /\ m_value' = Empty /\ m_lock' = NoThread)]_vars

\* A call in Synchronized mode has just failed while another thread waits for
\* the mutex: the instance is uninitialized and the mutex free.
C8_Witness ==
    /\ m_mode = "Synchronized"
    /\ \E t, u \in Threads :
        /\ pc[t] = "idle" /\ ret[t] = Failed
        /\ pc[u] = "s_lock" /\ blocked[u]
    /\ ~m_hasValue /\ m_value = Empty /\ m_lock = NoThread

\* C9, as claimed: in Synchronized mode a thread that was blocked on the mutex
\* when the initializer failed does not return from value() without having
\* attempted the initialization itself.
C9_WaitersAttemptInit ==
    \A t \in Threads :
        (m_mode = "Synchronized" /\ blocked[t] /\ pc[t] = "ret") => myInv[t] > 0

\* C9, amended: under fair scheduling, a thread that was blocked on the mutex
\* when the initializer failed eventually gets past the mutex (SyncLock is its
\* only step out of "s_lock"), and then either runs the initializer itself or
\* returns the value another thread has initialized in the meantime.
C9_WaitersProceed ==
    \A t \in Threads :
        (blocked[t] /\ pc[t] = "s_lock") ~> (pc[t] \in {"s_run", "ret"})

\* A thread that was blocked when the initializer failed holds the mutex.
C9_Witness ==
    \E t \in Threads : blocked[t] /\ pc[t] = "s_test" /\ m_lock = t

\* C10, as claimed: in Synchronized and Publication modes, once
\* isInitialized() has returned true no call of value(), those in progress
\* included, ends with the initializer's failure.
C10_NoFailureAfterInitialized ==
    [][(Guarded /\ isInitRet = "true") => \A t \in Threads : ~Throws(t)]_vars

\* C10, amended: in Synchronized and Publication modes, a call of value() that
\* starts after isInitialized() has returned true never ends with the
\* initializer's failure.
C10_LaterCallsNeverFail ==
    [][Guarded => \A t \in Threads : prior[t].inited => ~Throws(t)]_vars

\* A call started after isInitialized() returned true is on its fast path,
\* and the initializer would fail if it were invoked again.
C10_Witness ==
    /\ Guarded
    /\ (invocations + 1) \in failSet
    /\ \E t \in Threads : prior[t].inited /\ pc[t] = "fast"

\* ---- more vocabulary

\* Invocation k of the initializer is still running.
Running(k) ==
    \E t \in Threads : myInv[t] = k /\ pc[t] \in {"s_run", "p_run", "n_run"}
\* The invocations of the initializer that have returned a T.
Succeeded == {k \in 1..invocations : k \notin failSet /\ ~Running(k)}
\* No emplace has begun: m_value has never held a value.
NeverStored == m_value = Empty /\ m_writer = NoThread
\* Some thread's latest call of value() returned a reference.
AfterSuccess == \E t \in Threads : ret[t] \notin {Empty, Failed, BadAccess}

\* C11, as claimed: in Publication mode the initializer is invoked at most
\* once over the lifetime of the instance.
C11_AtMostOnce == m_mode = "Publication" => invocations <= 1

\* C11, amended: in Publication mode every call of value() invokes the
\* initializer at most once, and only a call that read m_hasValue false on
\* entry invokes it.
C11_OncePerUninitializedCall ==
    m_mode = "Publication" =>
        /\ invocations <= CallsOf(NThreads)
        /\ \A t \in Threads : myInv[t] # 0 => entryRead[t] = "false"

\* Two calls in Publication mode are inside the initializer at the same time.
C11_Witness ==
    /\ m_mode = "Publication"
    /\ \E t, u \in Threads : t # u /\ pc[t] = "p_run" /\ pc[u] = "p_run"

\* C12: in None mode, with one thread and an initializer that never fails,
\* after any number of calls of value() the initializer has been invoked
\* exactly once and the latest call returned that invocation's value.
C12_NoneOnce ==
    (m_mode = "None" /\ SingleThreaded /\ failSet = {} /\ AllIdle) =>
        \A t \in Threads :
            calls[t] > 0 => (invocations = 1 /\ ret[t] = InitValue(1))

\* C13: in every mode, construction neither invokes the initializer nor sets
\* m_hasValue (a fresh instance has invoked nothing and holds no value);
\* m_hasValue is false while no value has been stored and true once a call of
\* value() has returned; every call of isInitialized() made before a value has been
\* stored returns false, and every one made after a call of value() has
\* returned returns true.
C13_IsInitializedConsistent ==
    [][LET Fresh == CallsOf(NThreads) = 0 => (invocations = 0 /\ ~m_hasValue /\ m_value = Empty)
           Before == NeverStored => ~m_hasValue
           After == AfterSuccess => m_hasValue
       IN  /\ Fresh /\ Before /\ After
           /\ Fresh' /\ Before' /\ After'
           /\ (NeverStored /\ isInitRet' # isInitRet) => isInitRet' = "false"
           /\ (AfterSuccess /\ isInitRet' # isInitRet) => isInitRet' = "true"]_vars

\* isInitialized() has returned true after a call of value() returned, in None mode.
C13_Witness == m_mode = "None" /\ AfterSuccess /\ isInitRet = "true"

\* C14: in every mode, isInitialized() has returned true (or would return
\* true) only if some invocation of the initializer has returned its value.
C14_TrueOnlyAfterInit ==
    (isInitRet = "true" \/ m_hasValue) => Succeeded # {}

\* isInitialized() has returned true and an invocation of the initializer had failed.
C14_Witness == isInitRet = "true" /\ 1 \in failSet /\ invocations >= 2

\* C15: in Synchronized and Publication modes, a call of value() that read
\* m_hasValue true on entry is at its return, holds no mutex and has invoked
\* no initializer; whoever holds the mutex read m_hasValue false on entry.
C15_FastPathLockFree ==
    Guarded =>
        \A t \in Threads :
            /\ entryRead[t] = "true" => (pc[t] = "fast" /\ m_lock # t /\ myInv[t] = 0)
            /\ m_lock = t => entryRead[t] = "false"

\* One call is on the fast path while another call holds the mutex.
C15_Witness ==
    /\ Guarded
    /\ \E t, u \in Threads : entryRead[t] = "true" /\ pc[t] = "fast" /\ m_lock = u

\* C16: in every mode, no step makes m_hasValue false again once it is true,
\* and no step changes m_mode.
C16_OneWay ==
    [][(m_hasValue => m_hasValue') /\ m_mode' = m_mode]_vars

\* The flag is set, and a call that found it set has returned since.
C16_Witness ==
    /\ m_hasValue /\ isInitRet = "true"
    /\ \E t \in Threads : calls[t] >= 2 /\ pc[t] = "idle" /\ ret[t] \in Returned

\* C26: in Synchronized mode a thread inside the initializer holds m_lock, so
\* at most one thread is inside the initializer at any time.
C26_InitializerUnderLock ==
    m_mode = "Synchronized" =>
        /\ \A t \in Threads : pc[t] = "s_run" => m_lock = t
        /\ Cardinality({t \in Threads : pc[t] = "s_run"}) <= 1

\* A thread is inside the initializer for the second invocation while another
\* thread waits for m_lock.
C26_Witness ==
    /\ m_mode = "Synchronized"
    /\ \E t, u \in Threads : pc[t] = "s_run" /\ myInv[t] = 2 /\ pc[u] = "s_lock"

\* C27: in Publication mode a thread begins m_value.emplace only when m_value
\* has never been written: the slot is written at most once.
C27_WrittenAtMostOnce ==
    [][m_mode = "Publication" =>
        \A t \in Threads :
            (pc[t] = "p_emplace" /\ pc'[t] = "p_emplace2") => NeverStored]_vars

\* C28: in Publication mode whoever holds m_lock is at the check-and-store of
\* lines 53-55, and no thread inside the initializer holds m_lock.
C28_InitializerOutsideLock ==
    m_mode = "Publication" =>
        \A t \in Threads :
            /\ m_lock = t => pc[t] \in {"p_test", "p_emplace", "p_emplace2", "p_unlock"}
            /\ pc[t] = "p_run" => m_lock # t

\* A thread holds m_lock in the middle of publishing while another is inside
\* the initializer.
C28_Witness ==
    /\ m_mode = "Publication"
    /\ \E t, u \in Threads : pc[t] = "p_run" /\ m_lock = u /\ pc[u] = "p_emplace2"

\* C29: in every mode, whenever m_hasValue is true m_value holds a value.
C29_FlagImpliesValue == m_hasValue => m_value # Empty

\* C30: in Synchronized and Publication modes, with an initializer that
\* never throws and a scheduler that starves no thread, every call of value()
\* ends, and a thread whose call has ended does not hold m_lock.
C30_EveryCallReturns ==
    /\ [](\A t \in Threads : pc[t] = "idle" => m_lock # t)
    /\ \A t \in Threads : (pc[t] # "idle") ~> (pc[t] = "idle")

\* A thread waits for m_lock while another holds it inside the initializer.
C30_Witness ==
    /\ failSet = {}
    /\ \E t, u \in Threads : pc[t] = "s_lock" /\ m_lock = u /\ pc[u] = "s_run"

\* ======================= parallel() over a Range =========================

\* What parallel() and Range never touch.
notRange == <<lazyVars, ioVars, whenVars, iterVars, multiVars, inputVars>>

Min(a, b) == IF a <= b THEN a ELSE b

\* Range::steps(): (max - current) / step + 1, where / rounds towards zero as
\* C++ divides integers.
steps(current, max, step) ==
    LET span == max - current
    IN  (IF span >= 0 THEN span \div step ELSE -((-span) \div step)) + 1

\* What iterating Range(lo, hi, step) yields: lo, lo + step, ... while < hi
\* (begin(), operator!=(value_type), operator++).
Yields(lo, hi, step) == {v \in lo..(hi - 1) : (v - lo) % step = 0}

\* const auto threadNum = std::min(steps, threadCount);
threadNum == Min(steps(RangeStart, r_max, r_step), r_threadCount)
\* const auto perThread = steps / threadNum;
perThread == steps(RangeStart, r_max, r_step) \div threadNum

\* The threads launched: threadNum - 1 by the loop and the last one when func
\* returns void; threadNum by the loop and the last one when it returns a value.
Launched == IF r_version = "void" THEN 1..threadNum ELSE 1..(threadNum + 1)
\* "the last thread"
LastThread == IF r_version = "void" THEN threadNum ELSE threadNum + 1

\* The statement a launched thread starts at.
FirstStatement(i) ==
    CASE i # LastThread -> "first_lo"
      [] r_version = "void" -> "inc_read"
      [] OTHER -> "last_lo"

\* parallel(Range(0, max, step), func, threadCount) has launched its threads.
parallel ==
    /\ r_version \in {"void", "value"}
    /\ r_max \in 0..MaxEnd
    /\ r_step \in 1..MaxStep
    /\ r_threadCount \in 1..MaxThreadCount
    /\ r_current = RangeStart
    /\ r_pc = [i \in Workers |-> IF i \in Launched THEN FirstStatement(i) ELSE "none"]
    /\ r_tmp = [i \in Workers |-> 0]
    /\ r_lo = [i \in Workers |-> 0]
    /\ r_hi = [i \in Workers |-> 0]

RGoto(i, l) == r_pc' = [r_pc EXCEPT ![i] = l]

\* Range{ *range, ... } in a thread of the loop: the first element reads range.current.
FirstLo(i) ==
    /\ r_pc[i] = "first_lo"
    /\ r_lo' = [r_lo EXCEPT ![i] = r_current]
    /\ RGoto(i, "add_read")
    /\ UNCHANGED <<notRange, r_version, r_max, r_step, r_threadCount, r_current, r_tmp, r_hi>>

\* range += perThread: current += i * step reads current ...
AddRead(i) ==
    /\ r_pc[i] = "add_read"
    /\ r_tmp' = [r_tmp EXCEPT ![i] = r_current]
    /\ RGoto(i, "add_write")
    /\ UNCHANGED <<notRange, r_version, r_max, r_step, r_threadCount, r_current, r_lo, r_hi>>

\* ... and writes it back, i * step larger.
AddWrite(i) ==
    /\ r_pc[i] = "add_write"
    /\ r_current' = r_tmp[i] + perThread * r_step
    /\ RGoto(i, "first_hi")
    /\ UNCHANGED <<notRange, r_version, r_max, r_step, r_threadCount, r_tmp, r_lo, r_hi>>

\* *(range += perThread): the second element reads range.current; func is
\* called with the Range.
FirstHi(i) ==
    /\ r_pc[i] = "first_hi"
    /\ r_hi' = [r_hi EXCEPT ![i] = r_current]
    /\ RGoto(i, "done")
    /\ UNCHANGED <<notRange, r_version, r_max, r_step, r_threadCount, r_current, r_tmp, r_lo>>

\* ++range in the last thread (func returns void): current += step reads current ...
IncRead(i) ==
    /\ r_pc[i] = "inc_read"
    /\ r_tmp' = [r_tmp EXCEPT ![i] = r_current]
    /\ RGoto(i, "inc_write")
    /\ UNCHANGED <<notRange, r_version, r_max, r_step, r_threadCount, r_current, r_lo, r_hi>>

\* ... and writes it back, one step larger.
IncWrite(i) ==
    /\ r_pc[i] = "inc_write"
    /\ r_current' = r_tmp[i] + r_step
    /\ RGoto(i, "last_lo")
    /\ UNCHANGED <<notRange, r_version, r_max, r_step, r_threadCount, r_tmp, r_lo, r_hi>>

\* Range{ *range, range.end(), range.step } in the last thread; func is
\* called with the Range.
LastLo(i) ==
    /\ r_pc[i] = "last_lo"
    /\ r_lo' = [r_lo EXCEPT ![i] = r_current]
    /\ r_hi' = [r_hi EXCEPT ![i] = r_max]
    /\ RGoto(i, "done")
    /\ UNCHANGED <<notRange, r_version, r_max, r_step, r_threadCount, r_current, r_tmp>>

\* A step of a thread of the loop.
LoopThread(i) == FirstLo(i) \/ AddRead(i) \/ AddWrite(i) \/ FirstHi(i)
\* A step of the last thread.
LastThreadStep(i) == IncRead(i) \/ IncWrite(i) \/ LastLo(i)

RangeInit == parallel /\ LazyIdle /\ IOIdle /\ WhenIdle /\ RestIdle
RangeNext == \E i \in Workers : LoopThread(i) \/ LastThreadStep(i)
RangeSpec == RangeInit /\ [][RangeNext]_vars

\* thread.join() has returned for every thread.
Joined == r_version # "none" /\ \A i \in Launched : r_pc[i] = "done"
\* To how many threads' func the value v was given.
Given(v) == Cardinality({i \in Launched : v \in Yields(r_lo[i], r_hi[i], r_step)})
\* Every value some thread's func was given.
AllGiven == UNION {Yields(r_lo[i], r_hi[i], r_step) : i \in Launched}

\* C17: once parallel() has joined its threads, every value the Range yields
\* sequentially was given to exactly one thread's func, and no other value
\* was given to any.
C17_EachValueOnce ==
    Joined =>
        \A v \in AllGiven \cup Yields(RangeStart, r_max, r_step) :
            Given(v) = IF v \in Yields(RangeStart, r_max, r_step) THEN 1 ELSE 0

\* ================== ThreadSafe<os>: thread-safe output ====================

\* What the ThreadSafe functions never touch.
notIO == <<lazyVars, rangeVars, whenVars, iterVars, multiVars, inputVars>>

\* print, tryPrint, printLn, tryPrintLn
Blocking == {"print", "printLn"}
NonBlocking == {"tryPrint", "tryPrintLn"}

RECURSIVE PrintOf(_)
\* ((os << args << delim), ...); os << '\n';  the insertions print makes for n arguments
PrintOf(n) == IF n = 0 THEN <<"nl">> ELSE <<"arg", "delim">> \o PrintOf(n - 1)
RECURSIVE PrintLnOf(_)
\* ((os << args << '\n'), ...);  the insertions printLn makes for n arguments
PrintLnOf(n) == IF n = 0 THEN <<>> ELSE <<"arg", "nl">> \o PrintLnOf(n - 1)

\* The insertions into os a call makes when it prints.
Output(call) ==
    IF call.fn \in {"print", "tryPrint"} THEN PrintOf(call.nargs)
    ELSE PrintLnOf(call.nargs)

IOGoto(t, l) == io_pc' = [io_pc EXCEPT ![t] = l]

\* A thread calls one of the four functions with 1..MaxArgs arguments.
ThreadSafeCall(t) ==
    /\ io_pc[t] = "idle"
    /\ io_prints < MaxPrints
    /\ \E f \in Blocking \cup NonBlocking, n \in 1..MaxArgs :
          /\ io_call' = [io_call EXCEPT ![t] = [fn |-> f, nargs |-> n]]
          /\ IOGoto(t, IF f \in Blocking THEN "lock" ELSE "try")
    /\ io_n' = [io_n EXCEPT ![t] = 0]
    /\ io_prints' = io_prints + 1
    /\ UNCHANGED <<notIO, io_m, io_os>>

\* ThreadSafeLock as it would be without the mutex: the call goes on to print.
ThreadSafeLock_NoMutex(t) ==
    /\ io_pc[t] = "lock"
    /\ IOGoto(t, "write")
    /\ UNCHANGED <<notIO, io_m, io_call, io_n, io_os, io_prints>>

\* std::lock_guard lock{ m }; in print and printLn: waits until m is free.
ThreadSafeLock(t) ==
    /\ io_pc[t] = "lock"
    /\ io_m = NoThread
    /\ io_m' = t
    /\ IOGoto(t, "write")
    /\ UNCHANGED <<notIO, io_call, io_n, io_os, io_prints>>

\* std::unique_lock const lock{ m, std::try_to_lock_t{} }; if (lock): m was
\* free and try_lock took it.
ThreadSafeTryLock(t) ==
    /\ io_pc[t] = "try"
    /\ io_m = NoThread
    /\ io_m' = t
    /\ IOGoto(t, "write")
    /\ UNCHANGED <<notIO, io_call, io_n, io_os, io_prints>>

\* ThreadSafeTryFail as it would be without the test if (lock): the call
\* prints although try_lock failed.
ThreadSafeTryFail_Prints(t) ==
    /\ io_pc[t] = "try"
    /\ IOGoto(t, "write")
    /\ UNCHANGED <<notIO, io_m, io_call, io_n, io_os, io_prints>>

\* try_lock failed, because m is held or spuriously (std::mutex::try_lock may
\* fail although m is free): if (lock) is false and the function returns.
ThreadSafeTryFail(t) ==
    /\ io_pc[t] = "try"
    /\ IOGoto(t, "idle")
    /\ UNCHANGED <<notIO, io_m, io_call, io_n, io_os, io_prints>>

\* os << x: the next insertion of the call.
ThreadSafeWrite(t) ==
    /\ io_pc[t] = "write"
    /\ LET out == Output(io_call[t])
           k == io_n[t] + 1
       IN  /\ io_os' = Append(io_os, [by |-> t, k |-> k, of |-> Len(out), ch |-> out[k]])
           /\ io_n' = [io_n EXCEPT ![t] = k]
           /\ IOGoto(t, IF k = Len(out) THEN "unlock" ELSE "write")
    /\ UNCHANGED <<notIO, io_m, io_call, io_prints>>

\* The end of the function: lock goes out of scope and releases m.
ThreadSafeUnlock(t) ==
    /\ io_pc[t] = "unlock"
    /\ io_m' = NoThread
    /\ IOGoto(t, "idle")
    /\ UNCHANGED <<notIO, io_call, io_n, io_os, io_prints>>

\* A step of print or printLn.
print(t) == ThreadSafeLock(t) \/ ThreadSafeWrite(t) \/ ThreadSafeUnlock(t)
\* The try_lock of tryPrint or tryPrintLn.
tryPrint(t) == ThreadSafeTryLock(t) \/ ThreadSafeTryFail(t)

IOInit == LazyIdle /\ RangeIdle /\ IOIdle /\ WhenIdle /\ RestIdle
IONext == \E t \in Threads : ThreadSafeCall(t) \/ print(t) \/ tryPrint(t)
IOSpec == IOInit /\ [][IONext]_vars

\* t is inside a call of f, f one of fns.
Inside(t, fns) == io_pc[t] # "idle" /\ io_call[t].fn \in fns
\* The insertions of different calls are not interleaved in os: every
\* insertion but the first of a call follows the one before it of the same
\* call, and the first of a call follows the last of another.
NotInterleaved ==
    \A i \in 1..Len(io_os) :
        IF io_os[i].k = 1
        THEN i = 1 \/ io_os[i - 1].k = io_os[i - 1].of
        ELSE i > 1 /\ io_os[i - 1].by = io_os[i].by /\ io_os[i - 1].k = io_os[i].k - 1

\* C18: at most one thread is writing to os; the thread that writes holds m;
\* the insertions of one call are never interleaved with another's; a call of
\* print or printLn that waits has written nothing, and one that has returned
\* has written all of its output.
C18_MutualExclusion ==
    /\ Cardinality({t \in Threads : io_pc[t] = "write"}) <= 1
    /\ \A t \in Threads : io_pc[t] \in {"write", "unlock"} => io_m = t
    /\ NotInterleaved
    /\ \A t \in Threads :
          io_call[t].fn \in Blocking =>
              /\ io_pc[t] = "lock" => io_n[t] = 0
              /\ io_pc[t] \in {"unlock", "idle"} => io_n[t] = Len(Output(io_call[t]))

\* A call of print waits for m while another thread is in the middle of its output.
C18_Witness ==
    \E t, u \in Threads :
        /\ Inside(t, Blocking) /\ io_pc[t] = "lock"
        /\ io_pc[u] = "write" /\ io_n[u] > 0

\* C19: a call of tryPrint or tryPrintLn always has a step to take (it never
\* waits); its try_lock, when another thread holds m, returns at once and
\* leaves os and m as they were; it inserts into os only while it holds m;
\* and it does not hold m when it has returned.
C19_TryNeverBlocks ==
    [][\A t \in Threads :
          Inside(t, NonBlocking) =>
              /\ ENABLED (tryPrint(t) \/ ThreadSafeWrite(t) \/ ThreadSafeUnlock(t))
              /\ (io_pc[t] = "try" /\ io_m # NoThread /\ io_pc'[t] # "try") =>
                     (io_pc'[t] = "idle" /\ io_n'[t] = 0 /\ io_os' = io_os /\ io_m' = io_m)
              /\ io_n'[t] # io_n[t] => (io_m = t /\ io_m' = t)
              /\ io_pc[t] = "write" => io_m = t
              /\ io_pc'[t] = "idle" => io_m' # t]_vars

\* A call of tryPrint returned without printing because another thread was
\* printing, and that thread is still printing.
C19_Witness ==
    \E t, u \in Threads :
        /\ io_call[t].fn \in NonBlocking /\ io_pc[t] = "idle" /\ io_n[t] = 0
        /\ io_pc[u] = "write" /\ io_n[u] > 0 /\ io_m = u

\* ================================ when() =================================

\* What when() never touches.
notWhen == <<lazyVars, rangeVars, ioVars, iterVars, multiVars, inputVars>>

\* w_result when the call returned a default-constructed object
\* (std::decay_t<ReturnType>{}) instead of one of the r_i.
Default == 0
\* w_result when the call did not return at all.
Crash == -1

\* The cases a branch can have: a value to compare expr with, a bool, an
\* is<T> or is_not<T> query (v = 1: T is the type of expr), or Else().
Cases ==
    [kind : {"eq"}, v : 0..MaxExpr]
        \cup [kind : {"bool", "is", "is_not"}, v : {0, 1}]
        \cup [kind : {"Else"}, v : {1}]
\* The cases of the argument-less form: its parameters are bool.
BoolCases == {c \in Cases : c.kind \in {"bool", "Else"}}

\* What is said of a case that it is satisfied: an equal value, a true bool,
\* an is or is_not query that holds of the type of expr, or Else.
Satisfied(expr, c) ==
    CASE c.kind = "eq" -> c.v = expr
      [] c.kind = "bool" -> c.v = 1
      [] c.kind = "is" -> c.v = 1
      [] c.kind = "is_not" -> c.v = 0
      [] OTHER -> TRUE

\* What a function that flows off its end without a return statement may
\* do: return any of the results or a default one, or not return.
Undefined(cases) == {Crash, Default} \cup (1..Len(cases))

RECURSIVE when_impl(_, _, _)
\* detail::when_impl(expr, case_i, r_i, ..., case_n, r_n): the outcomes the
\* call can have (the i of the r_i returned, or Default).
when_impl(expr, cases, i) ==
    LET c == cases[i]
        rest == when_impl(expr, cases, i + 1)
    IN  IF i = Len(cases)
        THEN \* the overloads with one case
             CASE c.kind = "Else" -> {i}
               [] c.kind = "is" -> IF c.v = 1 THEN {i} ELSE {Default}
               [] c.kind = "is_not" -> IF c.v = 0 THEN {i} ELSE {Default}
               [] c.kind = "bool" ->
                    \* if (to_match) return ...; then, bool being comparable
                    \* with expr, if (to_match == expr) return ...
                    IF c.v = 1 \/ c.v = expr THEN {i} ELSE {Default}
               [] OTHER -> IF c.v = expr THEN {i} ELSE {Default}
        ELSE \* the recursive overloads
             CASE c.kind = "is" -> IF c.v = 1 THEN {i} ELSE rest
               [] c.kind = "is_not" -> IF c.v = 0 THEN {i} ELSE rest
               [] c.kind = "bool" ->
                    \* if constexpr (Case1Type is bool) { if (case1) return return1; }
                    \* and nothing else
                    IF c.v = 1 THEN {i} ELSE Undefined(cases)
               [] c.kind = "Else" ->
                    \* no overload for Else here: the primary template compares
                    \* expr == case1, Else converted to true
                    IF expr = 1 THEN {i} ELSE rest
               [] OTHER -> IF expr = c.v THEN {i} ELSE rest

RECURSIVE when_bare(_, _)
\* detail::when_impl(bool case_i, r_i, ..., bool case_n, r_n): the cases are
\* converted to bool (Else to true).
when_bare(cases, i) ==
    LET truth == cases[i].kind = "Else" \/ cases[i].v = 1
    IN  IF truth THEN {i}
        ELSE IF i = Len(cases) THEN {Default}
        ELSE when_bare(cases, i + 1)

\* when(expr, c1, r1, ..., cn, rn) or when(c1, r1, ..., cn, rn) is about to
\* be called; the argument-less form takes at least two branches.
WhenInit ==
    /\ w_form \in {"expr", "bare"}
    /\ w_expr \in 0..MaxExpr
    /\ \E n \in 1..MaxCases :
          w_cases \in [1..n -> IF w_form = "expr" THEN Cases ELSE BoolCases]
    /\ w_form = "bare" => (Len(w_cases) >= 2 /\ w_expr = 0)
    /\ w_result = Pending
    /\ LazyIdle /\ RangeIdle /\ IOIdle /\ RestIdle

\* when(expr, c1, r1, ..., cn, rn)
WhenExpr ==
    /\ w_form = "expr" /\ w_result = Pending
    /\ w_result' \in when_impl(w_expr, w_cases, 1)
    /\ UNCHANGED <<notWhen, w_form, w_expr, w_cases>>

\* when(c1, r1, ..., cn, rn)
WhenBare ==
    /\ w_form = "bare" /\ w_result = Pending
    /\ w_result' \in when_bare(w_cases, 1)
    /\ UNCHANGED <<notWhen, w_form, w_expr, w_cases>>

WhenNext == WhenExpr \/ WhenBare
WhenSpec == WhenInit /\ [][WhenNext]_vars

\* The branches of the call whose case is satisfied.
SatisfiedBranches == {i \in 1..Len(w_cases) : Satisfied(w_expr, w_cases[i])}

\* C20: when a case of the call is satisfied, the call returns r_i for the
\* smallest i whose case is satisfied.
C20_FirstSatisfiedWins ==
    (w_result # Pending /\ SatisfiedBranches # {}) =>
        /\ w_result \in SatisfiedBranches
        /\ \A i \in SatisfiedBranches : w_result <= i


\* ---------------------------------------------------------------------------
\* Range (Range/Range.hpp): for (auto i : Range(start, end, step)), and steps().

notIter == <<lazyVars, rangeVars, ioVars, whenVars, multiVars, inputVars>>

\* Range::operator!=(value_type), for an arithmetic value_type: the loop's test
\* of its iterator against end().
NotEnd_Unequal(current, end) == current # end
NotEnd(current, end) == current < end

\* Range(start, end, step): current starts at start.  begin() then copies the
\* Range into the loop's iterator, and end() is max.
RangeFor ==
    /\ it_start \in 0..MaxEnd
    /\ it_max \in 0..MaxEnd
    /\ it_step \in 1..MaxStep
    /\ it_current = it_start
    /\ it_pc = "test"
    /\ it_out = <<>>
    /\ it_steps = 0
    /\ it_at = NotAsked

\* __begin != __end
IterTest ==
    /\ it_pc = "test"
    /\ it_pc' = IF NotEnd(it_current, it_max) THEN "body" ELSE "done"
    /\ UNCHANGED <<notIter, it_start, it_max, it_step, it_current, it_out, it_steps, it_at>>

\* auto i = *__begin; the body; ++__begin, which is current += step.
IterBody ==
    /\ it_pc = "body"
    /\ it_out' = Append(it_out, it_current)
    /\ it_current' = it_current + it_step
    /\ it_pc' = "test"
    /\ UNCHANGED <<notIter, it_start, it_max, it_step, it_steps, it_at>>

\* steps() on the iterator, between two iterations.
IterSteps ==
    /\ it_pc = "test" /\ it_at = NotAsked
    /\ it_steps' = steps(it_current, it_max, it_step)
    /\ it_at' = it_current
    /\ UNCHANGED <<notIter, it_start, it_max, it_step, it_current, it_pc, it_out>>

IterInit == RangeFor /\ LazyIdle /\ RangeIdle /\ IOIdle /\ WhenIdle /\ MultiIdle /\ InputIdle
IterNext == IterTest \/ IterBody \/ IterSteps
IterSpec == IterInit /\ [][IterNext]_vars

\* s is the beginning of q.
IsPrefix(s, q) == Len(s) <= Len(q) /\ \A k \in 1..Len(s) : s[k] = q[k]

\* start, start+step, start+2*step, ... as far as they are < end.
Ascending(start, end, step) ==
    [k \in 1..Cardinality(Yields(start, end, step)) |-> start + (k - 1) * step]

\* C22: a range-based for over Range(start, end, step), step >= 1, gives its
\* body the values start, start+step, ... that are < end, in increasing order,
\* and nothing else; it stops once it has given them all, and it gives nothing
\* when start >= end.
C22_HalfOpenAscending ==
    it_pc # "none" =>
        LET expected == Ascending(it_start, it_max, it_step) IN
        /\ IsPrefix(it_out, expected)
        /\ it_pc = "body" => Len(it_out) < Len(expected)
        /\ it_pc = "done" => it_out = expected
        /\ (it_pc = "test" /\ Len(it_out) = Len(expected)) => ~NotEnd(it_current, it_max)
        /\ it_start >= it_max => it_out = <<>>
        /\ \A k \in 1..Len(it_out) : it_out[k] < it_max

\* A loop whose last increment passed end without meeting it has ended.
C22_Witness ==
    /\ it_pc = "done"
    /\ Len(it_out) >= 2
    /\ it_current > it_max

\* C23: steps(), called with current <= end, is the smallest k with
\* current + k*step >= end, which is how many values the Range still yields.
C23_StepsLeft ==
    (it_at # NotAsked /\ it_at <= it_max) =>
        /\ it_at + it_steps * it_step >= it_max
        /\ it_steps > 0 => it_at + (it_steps - 1) * it_step < it_max
        /\ it_steps = Cardinality(Yields(it_at, it_max, it_step))


\* ---------------------------------------------------------------------------
\* MultiRange (Range/Range.hpp): for (auto [i, j] : Range(..) | Range(..)).

notMulti == <<lazyVars, rangeVars, ioVars, whenVars, iterVars, inputVars>>

RECURSIVE incRange(_, _)
\* MultiRange::incRange<I>(): ++ the I-th Range; when that makes its current
\* equal to its max, and it is not the first Range, put it back to its start
\* value and incRange<I - 1>().  The Ranges are numbered from 1 here.
incRange(current, I) ==
    LET incremented == [current EXCEPT ![I] = current[I] + mr_step[I]] IN
    IF incremented[I] = mr_max[I] /\ I # 1
    THEN incRange([incremented EXCEPT ![I] = mr_start[I]], I - 1)
    ELSE incremented

\* Range(s1, e1, t1) | Range(s2, e2, t2): ranges holds the Ranges, startValues
\* their current values; begin() copies the MultiRange into the loop's iterator.
MultiRangeFor ==
    /\ mr_start \in [1..Dims -> 0..MaxEnd]
    /\ mr_max \in [1..Dims -> 0..MaxEnd]
    /\ mr_step \in [1..Dims -> 1..MaxStep]
    /\ mr_current = mr_start
    /\ mr_pc = "test"
    /\ mr_out = <<>>

\* __begin != __end: MultiRange::operator!= compares the first Range with the
\* first end value, by Range::operator!=(value_type).
MultiTest ==
    /\ mr_pc = "test"
    /\ mr_pc' = IF NotEnd(mr_current[1], mr_max[1]) THEN "body" ELSE "done"
    /\ UNCHANGED <<notMulti, mr_start, mr_max, mr_step, mr_current, mr_out>>

\* auto [i, j] = *__begin; the body; ++__begin, which is incRange<last>().
\* The model follows the loop for MaxTuples iterations.
MultiBody ==
    /\ mr_pc = "body"
    /\ Len(mr_out) < MaxTuples
    /\ mr_out' = Append(mr_out, mr_current)
    /\ mr_current' = incRange(mr_current, Dims)
    /\ mr_pc' = "test"
    /\ UNCHANGED <<notMulti, mr_start, mr_max, mr_step>>

MultiInit == MultiRangeFor /\ LazyIdle /\ RangeIdle /\ IOIdle /\ WhenIdle /\ IterIdle /\ InputIdle
MultiNext == MultiTest \/ MultiBody
MultiSpec == MultiInit /\ [][MultiNext]_vars

\* What for (i : Range(s1, e1, t1)) for (j : Range(s2, e2, t2)) gives its body.
NestedFor ==
    LET outer == Ascending(mr_start[1], mr_max[1], mr_step[1])
        inner == Ascending(mr_start[2], mr_max[2], mr_step[2])
    IN  [k \in 1..(Len(outer) * Len(inner)) |->
            <<outer[((k - 1) \div Len(inner)) + 1], inner[((k - 1) % Len(inner)) + 1]>>]

\* C21: a range-based for over Range | Range gives its body the tuples of the
\* nested for-loop over the two Ranges, each once, the first Range outermost,
\* and then ends.
C21_NestedLoopOrder ==
    mr_pc # "none" =>
        /\ IsPrefix(mr_out, NestedFor)
        /\ mr_pc = "body" => Len(mr_out) < Len(NestedFor)
        /\ mr_pc = "done" => mr_out = NestedFor


\* ---------------------------------------------------------------------------
\* input<T>() (IO/IO.hpp), for T = int and T = unsigned.

notInput == <<lazyVars, rangeVars, ioVars, whenVars, iterVars, multiVars>>

\* What a line of std::cin holds: a number that fits T and make_signed_t<T>,
\* something that is no number ("abc"), or digits too many for T.
Num(n) == [as |-> "num", n |-> n]
NotANumber == [as |-> "bad", n |-> 0]
TooBig == [as |-> "big", n |-> 0]
Entries == {Num(n) : n \in (-MaxNum)..MaxNum} \cup {NotANumber, TooBig}

Abs(n) == IF n < 0 THEN -n ELSE n

\* std::cin >> i, i a T, with entry at the head of the stream: whether the
\* stream is still good, and the i it leaves.  A failed extraction stores 0,
\* or the largest T when the digits overflow T; an unsigned takes a negative
\* number modulo 2^32.
Extract(T, entry) ==
    CASE entry.as = "num" /\ (entry.n >= 0 \/ T = "signed") -> [ok |-> TRUE, i |-> Val(entry.n)]
      [] entry.as = "num" /\ entry.n < 0 /\ T = "unsigned" -> [ok |-> TRUE, i |-> Wrapped(entry.n)]
      [] entry.as = "bad" -> [ok |-> FALSE, i |-> DefaultT]
      [] entry.as = "big" -> [ok |-> FALSE, i |-> Limit]

\* std::cin.peek() == '-'
PeekMinus(cin) == cin # <<>> /\ Head(cin).as = "num" /\ Head(cin).n < 0

\* The call: std::cin is good and holds some lines; nothing is printed yet.
InputCall ==
    /\ in_T \in {"signed", "unsigned"}
    /\ in_retry \in BOOLEAN
    /\ \E n \in 0..MaxLines : in_cin \in [1..n -> Entries]
    /\ in_lines = Len(in_cin)
    /\ in_fail = FALSE
    /\ in_pc = "call"
    /\ in_ret = NoEntry
    /\ in_prompts = 0
    /\ in_failed = 0
    /\ in_entry = NoEntry

\* retry = false: the prompt, std::cin >> i, restore(std::cin), return i.
\* restore() reads up to the next '\n': at the end of the input it never gets
\* one, and each is.get() it tries sets failbit and eofbit again.
InputOnce ==
    /\ in_pc = "call" /\ ~in_retry
    /\ in_prompts' = in_prompts + 1
    /\ IF in_cin = <<>>
       THEN /\ in_pc' = "hang"
            /\ in_fail' = TRUE
            /\ in_failed' = in_failed + 1
            /\ UNCHANGED <<in_cin, in_ret, in_entry>>
       ELSE LET x == Extract(in_T, Head(in_cin)) IN
            /\ in_cin' = Tail(in_cin)
            /\ in_fail' = FALSE
            /\ in_failed' = IF x.ok THEN in_failed ELSE in_failed + 1
            /\ in_entry' = IF x.ok THEN Head(in_cin) ELSE NoEntry
            /\ in_ret' = x.i
            /\ in_pc' = "done"
    /\ UNCHANGED <<notInput, in_T, in_retry, in_lines>>

\* retry = true, one turn of the do-while: restore(std::cin) if the stream has
\* failed, the prompt, then either the branch of peek() == '-' (std::cin >>
\* i_abs; restore; return abs(i_abs)) or std::cin >> i, and on success
\* restore(std::cin); return i.
InputTry ==
    /\ in_pc \in {"call", "again"} /\ in_retry
    /\ IF in_fail /\ in_cin = <<>>
       THEN /\ in_pc' = "hang"
            /\ in_fail' = TRUE
            /\ UNCHANGED <<in_cin, in_ret, in_entry, in_prompts, in_failed>>
       ELSE LET cin == IF in_fail THEN Tail(in_cin) ELSE in_cin IN
            /\ in_prompts' = in_prompts + 1
            /\ IF cin = <<>>
               THEN /\ in_fail' = TRUE
                    /\ in_failed' = in_failed + 1
                    /\ in_cin' = cin
                    /\ in_pc' = "again"
                    /\ UNCHANGED <<in_ret, in_entry>>
               ELSE IF PeekMinus(cin)
               THEN /\ in_fail' = FALSE
                    /\ in_cin' = Tail(cin)
                    /\ in_entry' = Head(cin)
                    /\ in_ret' = Val(Abs(Head(cin).n))
                    /\ in_pc' = "done"
                    /\ UNCHANGED in_failed
               ELSE LET x == Extract(in_T, Head(cin)) IN
                    IF x.ok
                    THEN /\ in_fail' = FALSE
                         /\ in_cin' = Tail(cin)
                         /\ in_entry' = Head(cin)
                         /\ in_ret' = x.i
                         /\ in_pc' = "done"
                         /\ UNCHANGED in_failed
                    ELSE /\ in_fail' = TRUE
                         /\ in_failed' = in_failed + 1
                         /\ in_cin' = cin
                         /\ in_pc' = "again"
                         /\ UNCHANGED <<in_ret, in_entry>>
    /\ UNCHANGED <<notInput, in_T, in_retry, in_lines>>

InputInit == InputCall /\ LazyIdle /\ RangeIdle /\ IOIdle /\ WhenIdle /\ IterIdle /\ MultiIdle
InputNext == InputOnce \/ InputTry
InputSpec == InputInit /\ [][InputNext]_vars

\* The call has returned, after an extraction that succeeded.
ReturnedEntry == in_pc = "done" /\ in_entry # NoEntry

\* C24: input<T>() returns what std::cin >> reads; a negative entry comes back
\* unchanged when T is signed, and only an unsigned T turns it into its
\* absolute value.
C24_NegativeKeptWhenSigned ==
    ReturnedEntry =>
        IF in_T = "signed" \/ in_entry.n >= 0
        THEN in_ret = Val(in_entry.n)
        ELSE in_ret \in {Val(Abs(in_entry.n)), Wrapped(in_entry.n)}

\* C25: with retry = true input<T>() returns only after an extraction that
\* succeeded, and returns its value (for an unsigned T the absolute value of a
\* negative entry), having prompted once more and dropped one more line for each
\* failed extraction, with the stream good; with retry = false a failed
\* extraction ends the call with T{} and the stream good.
C25_RetryOrDefault ==
    /\ (in_pc = "done" /\ in_retry) =>
          /\ in_entry # NoEntry
          /\ in_ret = IF in_T = "unsigned" THEN Val(Abs(in_entry.n)) ELSE Val(in_entry.n)
          /\ ~in_fail
          /\ in_prompts = in_failed + 1
          /\ Len(in_cin) = in_lines - (in_failed + 1)
    /\ (in_pc = "done" /\ ~in_retry /\ in_entry = NoEntry) =>
          /\ in_ret = DefaultT
          /\ ~in_fail
    /\ (in_pc = "hang") => in_retry

=============================================================================
